---------------------------- MODULE Spec2Model ----------------------------
(***************************************************************************)
(* Model of grid2op.Reward.ShapedReward (src/grid2op/Reward/shapedReward.py *)
(* and its duplicate shaped_reward.py, which differ only in the name of the *)
(* static method).                                                          *)
(*                                                                          *)
(* Real numbers are kept exactly.  Line load ratios and the coefficient u   *)
(* are fixed-point integers counted in tenths (12 stands for 1.2), so the   *)
(* literals 1 and 0.5 of the source are the integers 10 and 5.  A returned  *)
(* float is either a literal  x/10  or  exp(x/10);  the exponential is kept *)
(* symbolic and compared through its exponent (exp is strictly increasing,  *)
(* exp(0) = 1, exp > 0).                                                    *)
(***************************************************************************)
EXTENDS Integers, Sequences, FiniteSets

VARIABLES reward_min, obs, args, res

vars == <<reward_min, obs, args, res>>

---------------------------------------------------------------------------
(* Bounds of the model *)

MaxLines == 2

\* load ratios in tenths: below 0.5, between 0.5 and 1, exactly 1, two overflows
Ratios == {4, 8, 10, 12, 15}
\* time_next_maintenance: 0 = in maintenance now, otherwise not
MaintValues == {0, 3}
\* time_since_last_attack: -1 = never attacked, >= 0 = attacked
AttackValues == {-1, 0}
\* the ratios used for observations whose four arrays need not be aligned
AnyRatios == {4, 12}

---------------------------------------------------------------------------
(* Numbers *)

\* the literal 1 of `obs.rho.max()<=1` and `rho>1`, in tenths
One == 10
\* the literal 0.5 of `rho-0.5` and `0.5*n_offline`, in tenths
Half == 5

Lit(x) == [kind |-> "lit", x |-> x]
Exp(x) == [kind |-> "exp", x |-> x]
Unset == [kind |-> "unset", x |-> 0]

\* dt_float(0.0)
dt_float_zero == Lit(0)

\* math.exp(-u-0.5*n_offline), u in tenths
math_exp_mutsign(u, n_offline) == Exp(u - Half * n_offline)
math_exp(u, n_offline) == Exp(- u - Half * n_offline)

---------------------------------------------------------------------------
(* Observations *)

SeqsUpTo(S, n) == UNION {[1..k -> S] : k \in 0..n}

MkObs(r, s, m, a) ==
    [rho |-> r, line_status |-> s, time_next_maintenance |-> m,
     time_since_last_attack |-> a]

\* the four arrays have one entry per line, n lines
IsAlignedObservation(o) ==
    \E n \in 0..MaxLines :
        \E r \in [1..n -> Ratios], s \in [1..n -> BOOLEAN],
           m \in [1..n -> MaintValues], a \in [1..n -> AttackValues] :
            o = MkObs(r, s, m, a)

\* the four arrays have any lengths up to MaxLines
IsAnyObservation(o) ==
    \E r \in SeqsUpTo(AnyRatios, MaxLines), s \in SeqsUpTo(BOOLEAN, MaxLines),
       m \in SeqsUpTo(MaintValues, MaxLines),
       a \in SeqsUpTo(AttackValues, MaxLines) :
        o = MkObs(r, s, m, a)

---------------------------------------------------------------------------
(* numpy and builtins used by the reward *)

RECURSIVE np_max(_)
\* ndarray.max() of a non-empty array
np_max(a) ==
    IF Len(a) = 1 THEN a[1]
    ELSE LET m == np_max(Tail(a)) IN IF a[1] > m THEN a[1] ELSE m

\* ndarray.max() of a zero-size array raises ValueError
np_max_raises(a) == Len(a) = 0

RECURSIVE py_sum(_)
\* builtin sum of a list, starting from 0
py_sum(l) == IF Len(l) = 0 THEN 0 ELSE l[1] + py_sum(Tail(l))

\* builtin max([x, 0])
py_max0(x) == IF x > 0 THEN x ELSE 0

RECURSIVE np_sum(_)
\* np.sum of a boolean array: the number of True
np_sum(b) == IF Len(b) = 0 THEN 0 ELSE (IF b[1] THEN 1 ELSE 0) + np_sum(Tail(b))

\* [rho-0.5 for rho in obs.rho if rho>1]
overflow_terms_mutge(rho) ==
    LET sel == SelectSeq(rho, LAMBDA r : r >= One)
    IN  [i \in 1..Len(sel) |-> sel[i] - Half]
overflow_terms(rho) ==
    LET sel == SelectSeq(rho, LAMBDA r : r > One)
    IN  [i \in 1..Len(sel) |-> sel[i] - Half]

\* the branch condition obs.rho.max()<=1
no_overflow_mutlt(rho) == np_max(rho) < One
no_overflow(rho) == np_max(rho) <= One

\* the coefficient u
coefficient_u_mutmax(rho) == py_max0(np_max(rho) - Half)
coefficient_u(rho) ==
    IF no_overflow(rho)
    THEN py_max0(np_max(rho) - Half)
    ELSE py_sum(overflow_terms(rho))

lines_disconnected(o) ==
    np_sum([i \in 1..Len(o.line_status) |-> o.line_status[i] = FALSE])
lines_in_maintenance(o) ==
    np_sum([i \in 1..Len(o.time_next_maintenance) |-> o.time_next_maintenance[i] = 0])
lines_under_attack(o) ==
    np_sum([i \in 1..Len(o.time_since_last_attack) |-> o.time_since_last_attack[i] >= 0])

n_offline_of(o) ==
    lines_disconnected(o) - lines_in_maintenance(o) - lines_under_attack(o)

---------------------------------------------------------------------------
(* Outcome of a call: what it returned or raised, with the locals it computed *)

NoOutcome ==
    [kind |-> "none", val |-> Unset, exc |-> "", read |-> FALSE,
     u |-> 0, n_offline |-> 0, warnings |-> {}]

Return(v, read, u, n) ==
    [kind |-> "return", val |-> v, exc |-> "", read |-> read,
     u |-> u, n_offline |-> n, warnings |-> {}]

Raise(e) ==
    [kind |-> "raise", val |-> Unset, exc |-> e, read |-> TRUE,
     u |-> 0, n_offline |-> 0, warnings |-> {}]

\* the body of line_overflowing_sum once obs.rho.max() has a value
shaped_reward(o) ==
    LET u == coefficient_u(o.rho)
        n_offline == n_offline_of(o)
    IN  Return(math_exp(u, n_offline), TRUE, u, n_offline)

\* ShapedReward.line_overflowing_sum(env), env.current_obs = o
line_overflowing_sum_mutempty(o) ==
    IF Len(o.rho) = 0 THEN Return(Lit(0), TRUE, 0, 0) ELSE shaped_reward(o)
line_overflowing_sum(o) ==
    IF np_max_raises(o.rho) THEN Raise("ValueError") ELSE shaped_reward(o)

\* the guard `not is_done and not has_error`
not_terminated_mutor(has_error, is_done) == ~is_done \/ ~has_error
not_terminated(has_error, is_done) == ~is_done /\ ~has_error

NoArgs == [called |-> FALSE, has_error |-> FALSE, is_done |-> FALSE]

---------------------------------------------------------------------------
(* Operations *)

\* ShapedReward.initialize(env)
initialize ==
    /\ reward_min' = dt_float_zero
    /\ UNCHANGED <<obs, args, res>>

\* ShapedReward.__call__(action, env, has_error, is_done, is_illegal, is_ambiguous)
\* the reward is called by the environment once initialize has run
call_mutcache(action, has_error, is_done, is_illegal, is_ambiguous) ==
    /\ reward_min # Unset
    /\ args' = [called |-> TRUE, has_error |-> has_error, is_done |-> is_done]
    /\ res' = IF not_terminated(has_error, is_done)
              THEN line_overflowing_sum(obs)
              ELSE Return(reward_min, FALSE, 0, 0)
    /\ reward_min' = IF res'.kind = "return" THEN res'.val ELSE reward_min
    /\ UNCHANGED obs
call(action, has_error, is_done, is_illegal, is_ambiguous) ==
    /\ reward_min # Unset
    /\ args' = [called |-> TRUE, has_error |-> has_error, is_done |-> is_done]
    /\ res' = IF not_terminated(has_error, is_done)
              THEN line_overflowing_sum(obs)
              ELSE Return(reward_min, FALSE, 0, 0)
    /\ UNCHANGED <<reward_min, obs>>

Actions == {"do_nothing", "act"}

Start ==
    /\ reward_min = Unset
    /\ args = NoArgs
    /\ res = NoOutcome

Init == Start /\ IsAlignedObservation(obs)

InitAny == Start /\ IsAnyObservation(obs)

Next ==
    \/ initialize
    \/ \E action \in Actions, has_error \in BOOLEAN, is_done \in BOOLEAN,
          is_illegal \in BOOLEAN, is_ambiguous \in BOOLEAN :
            call(action, has_error, is_done, is_illegal, is_ambiguous)

Spec == Init /\ [][Next]_vars

SpecAny == InitAny /\ [][Next]_vars

---------------------------------------------------------------------------
(* Vocabulary of the properties *)

Lines(o) == 1..Len(o.rho)

Aligned(o) ==
    /\ Len(o.line_status) = Len(o.rho)
    /\ Len(o.time_next_maintenance) = Len(o.rho)
    /\ Len(o.time_since_last_attack) = Len(o.rho)

\* the last call was made with is_done and has_error both false
NonTerminatedCall == args.called /\ ~args.is_done /\ ~args.has_error

\* the last call was made with is_done or has_error true
TerminatedCall == args.called /\ (args.is_done \/ args.has_error)

Returned == res.kind = "return"

\* the lines whose ratio is strictly greater than 1
Overflowing(o) == {i \in Lines(o) : o.rho[i] > One}

RECURSIVE SumOver(_, _)
\* the sum of f[i] over the index set S
SumOver(S, f) ==
    IF S = {} THEN 0
    ELSE LET i == CHOOSE j \in S : TRUE IN f[i] + SumOver(S \ {i}, f)

\* order and range of the symbolic reals  exp(x/10)
RealLess(a, b) == a.kind = "exp" /\ b.kind = "exp" /\ a.x < b.x
InUnitInterval(a) == a.kind = "exp" /\ a.x <= 0
IsOne(a) == a.kind = "exp" /\ a.x = 0

---------------------------------------------------------------------------
(* C1: whenever is_done or has_error is true the call returns exactly      *)
(* reward_min, which is 0.0 after initialize, and the observation is not   *)
(* read, whatever the observation (aligned or not, empty or not) and the   *)
(* other arguments are.                                                    *)
C1_FloorOnTermination ==
    TerminatedCall =>
        /\ Returned
        /\ res.val = reward_min
        /\ res.val = Lit(0)
        /\ ~res.read

C1_Witness ==
    /\ TerminatedCall
    /\ Returned
    /\ Len(obs.rho) = 0
    /\ Len(obs.line_status) = 2

(* C2: when at least one line has ratio > 1, u is the sum of (ratio - 0.5) *)
(* over exactly the lines with ratio > 1; lines at or below 1 add nothing. *)
C2_OverflowSum ==
    (NonTerminatedCall /\ Returned /\ Overflowing(obs) # {}) =>
        res.u = SumOver(Overflowing(obs), [i \in Lines(obs) |-> obs.rho[i] - Half])

C2_Witness ==
    /\ NonTerminatedCall
    /\ Returned
    /\ \E i, j \in Lines(obs) : obs.rho[i] = One /\ obs.rho[j] > One
    /\ res.u > 0

(* C3: when the largest ratio is <= 1, u is max(rhoMax - 0.5, 0), it is    *)
(* non-negative, and rhoMax = 1 gives u = 0.5.                             *)
C3_NoOverflowU ==
    (NonTerminatedCall /\ Returned /\ Overflowing(obs) = {}) =>
        \E i \in Lines(obs) :
            /\ \A j \in Lines(obs) : obs.rho[j] <= obs.rho[i]
            /\ res.u = (IF obs.rho[i] - Half >= 0 THEN obs.rho[i] - Half ELSE 0)
            /\ res.u >= 0
            /\ (obs.rho[i] = One => res.u = Half)

C3_Witness ==
    /\ NonTerminatedCall
    /\ Returned
    /\ Overflowing(obs) = {}
    /\ \E i \in Lines(obs) : obs.rho[i] = One
    /\ res.u = Half

(* C4: on an aligned observation n_offline is the number of lines that are *)
(* disconnected and neither in maintenance nor attacked.                   *)
C4_OfflineCount ==
    (NonTerminatedCall /\ Returned /\ Aligned(obs)) =>
        res.n_offline =
            Cardinality({i \in Lines(obs) :
                            /\ obs.line_status[i] = FALSE
                            /\ obs.time_next_maintenance[i] # 0
                            /\ obs.time_since_last_attack[i] < 0})

(* C5: a non-terminated call on n >= 1 lines with n_offline >= 0 has       *)
(* u >= 0 and a reward in (0, 1]; the reward is 1 exactly when u = 0 and   *)
(* n_offline = 0.                                                          *)
C5_RewardRange ==
    (NonTerminatedCall /\ Returned /\ Len(obs.rho) >= 1 /\ res.n_offline >= 0) =>
        /\ res.u >= 0
        /\ InUnitInterval(res.val)
        /\ (IsOne(res.val) <=> (res.u = 0 /\ res.n_offline = 0))

C5_Witness ==
    /\ NonTerminatedCall
    /\ Returned
    /\ res.u > 0
    /\ res.n_offline > 0
    /\ InUnitInterval(res.val)

(* C6: when n_offline is negative the call surfaces a                      *)
(* DataConsistencyWarning.                                                 *)
C6_NegativeOfflineWarns ==
    (NonTerminatedCall /\ res.read /\ Len(obs.rho) >= 1 /\ n_offline_of(obs) < 0) =>
        "DataConsistencyWarning" \in res.warnings

(* C7: a non-terminated call on an observation whose four arrays do not    *)
(* all have the same length fails with InvalidObservation and returns no   *)
(* reward.                                                                 *)
C7_MisalignedFails ==
    (NonTerminatedCall /\ ~Aligned(obs)) =>
        res.kind = "raise" /\ res.exc = "InvalidObservation"

(* C8: a non-terminated call on a zero-line observation fails with         *)
(* InvalidObservation and returns no reward.                               *)
C8_EmptyInvalidObservation ==
    (NonTerminatedCall /\ Aligned(obs) /\ Len(obs.rho) = 0) =>
        res.kind = "raise" /\ res.exc = "InvalidObservation"

(* C8 as amended: a non-terminated call on a zero-line observation fails   *)
(* with the ValueError of numpy's max of a zero-size array and returns no  *)
(* reward.                                                                 *)
C8_EmptyRaises ==
    (NonTerminatedCall /\ Aligned(obs) /\ Len(obs.rho) = 0) =>
        /\ res.kind = "raise"
        /\ res.exc = "ValueError"
        /\ ~Returned

C8_Witness ==
    /\ NonTerminatedCall
    /\ Aligned(obs)
    /\ Len(obs.rho) = 0
    /\ res.kind = "raise"

(* C9: raising the ratio of one overflowing line, everything else kept,    *)
(* strictly lowers the reward of a non-terminated call.                    *)
C9_Monotone ==
    (NonTerminatedCall /\ Returned) =>
        \A i \in Overflowing(obs) : \A r \in Ratios :
            r > obs.rho[i] =>
                LET second == line_overflowing_sum([obs EXCEPT !.rho[i] = r])
                IN  /\ second.kind = "return"
                    /\ second.u > res.u
                    /\ RealLess(second.val, res.val)

C9_Witness ==
    /\ NonTerminatedCall
    /\ Returned
    /\ \E i \in Overflowing(obs) : \E r \in Ratios : r > obs.rho[i]
    /\ Cardinality(Overflowing(obs)) = 2

(* C10: once initialize has run, every step leaves reward_min at 0.0 and   *)
(* the observation unchanged, and a call repeated with the same flags on   *)
(* the same observation gives the same outcome.                            *)
C10_Frame ==
    [][/\ reward_min # Unset => (reward_min = Lit(0) /\ reward_min' = Lit(0))
       /\ obs' = obs
       /\ (args.called /\ args'.has_error = args.has_error
                       /\ args'.is_done = args.is_done) => res' = res]_vars

C10_Witness ==
    /\ NonTerminatedCall
    /\ Returned
    /\ res.val # Lit(0)
    /\ reward_min = Lit(0)

=============================================================================
